---- MODULE Spec2Model ----
(***************************************************************************)
(* A model of pollevbot: the PollBot main loop (pollbot.py) and the        *)
(* TelegramNotifier approval table with its listener, waiter and cleanup   *)
(* threads (telegram_notifier.py).                                         *)
(*                                                                         *)
(* SpecBot    : PollBot.run driven by arbitrary feed probe results.        *)
(* SpecBroker : TelegramNotifier driven by a caller thread, the Telegram   *)
(*              listener thread and the cleanup thread, interleaved.       *)
(***************************************************************************)
EXTENDS Integers, Sequences, FiniteSets, TLC

(***************************************************************************)
(* Bounds of the model.                                                    *)
(***************************************************************************)
\* number of distinct poll ids the feed can report
MaxPolls == 2
\* number of feed probes issued within one run
MaxProbes == 3
\* number of options a multiple choice poll carries
NumOptions == 2

Polls == 1..MaxPolls

\* a poll id has one kind on the platform: odd ids are free text polls
PollKind(p) == IF p % 2 = 1 THEN "free_text_poll" ELSE "multiple_choice_poll"

Min(a, b) == IF a < b THEN a ELSE b
Max(a, b) == IF a > b THEN a ELSE b

\* the texts an edit message can carry
Texts == {"t1"}

\* w_ret before any return, and the None that send_for_approval (221, 268) and
\* wait_for_response (286) return
NoResult == [status |-> "none", modified_text |-> "None"]
NoneResultMut == [status |-> "approved", modified_text |-> "None"]

NoneResult == [status |-> "None", modified_text |-> "None"]

\* PollBot objects the dashboard creates
MaxBots == 3

\* words an answer text is put together from
MaxWords == 3

\* OutputValidator.MAX_RESPONSE_LENGTH, in characters
MAX_RESPONSE_LENGTH == 150

\* OutputValidator.MIN_CONFIDENCE_THRESHOLD (0.7), in hundredths
MIN_CONFIDENCE_THRESHOLD == 70

\* default max_retries of validate_and_retry_response
max_retries == 3

\* the confirmation of a candidate that was never offered for one
NoApproval ==
  [via |-> "none", channel |-> "not_offered", approved |-> TRUE,
   modified_text |-> "None", blocked |-> FALSE]

VARIABLES
  \* ---- PollBot (pollbot.py) ----
  b_pc,            \* position of PollBot.run
  claude_client,   \* TRUE when a ClaudeClient is configured
  telegram_notifier, \* TRUE when self.telegram_notifier is configured
  min_option,      \* self.min_option
  max_option,      \* self.max_option (NumOptions + 1 stands for None)
  token,           \* number of firehose tokens fetched so far
  last_error,      \* self.last_error: "None", "ExpiredSubscription", "Other"
  answered_polls,  \* self.answered_polls
  poll_id,         \* poll id returned by the last get_new_poll_id (0 = None)
  probes,          \* number of feed probes issued
  marker,          \* history: the last probe delivered the ExpiredSubscription marker
  reported,        \* history: how often a probe reported each id as open
  returned,        \* history: how often get_new_poll_id returned each id
  posts,           \* history: the answer POSTs issued, per poll id
  logged,          \* history: entries appended to the response log, per poll id
  status_sink,     \* last (message kind, severity) sent through send_status
  raised,          \* the exception that left run, or "None"
  gen_out,         \* history: what each generator call made for a poll did
  candidate,       \* history: attempt whose output validate_and_retry_response returned
  approval,        \* history: what get_user_confirmation returned for a poll
  result,          \* history: what answer_poll returned for a poll
  notice,          \* history: the logger message answer_poll left a poll with
  \* ---- TelegramNotifier (telegram_notifier.py) ----
  admin_chat_id,     \* TRUE when self.admin_chat_id is set
  responses,         \* the PendingResponse objects ever created, by response_id
  pending_responses, \* the keys of self.pending_responses
  responses_lock,    \* holder of self.responses_lock, or "free"
  notified,          \* response ids whose approval message reached the chat
  edit_state,        \* telebot state store: 0, or the response_id awaiting an edit
  l_pc,              \* listener thread: position in the running handler
  l_id,              \* listener thread: response_id of the running handler
  l_action,          \* listener thread: action of the running handler
  l_events,          \* number of updates the listener has dispatched
  l_commit,          \* history: statuses the listener wrote, per response_id
  w_pc,              \* caller thread: position in send_for_approval / wait_for_response
  w_id,              \* caller thread: response_id
  w_left,            \* caller thread: minutes left until end_time
  w_seen,            \* caller thread: status read by the last poll of the wait loop
  w_ret,             \* caller thread: what wait_for_response returned last
  w_path,            \* caller thread: the return statement it left through
  requests,          \* history: the id each send_for_approval call allocated (0: none)
  w_before,          \* history: the keys of pending_responses when send_for_approval was called
  waited,            \* history: ids wait_for_response was called with
  removals,          \* history: deletions from pending_responses, per response_id
  reaped,            \* history: ids the cleanup thread found expired
  \* ---- WebGUI (web_gui.py) ----
  bot_status,        \* global bot_status: "stopped" or "running"
  bot_instance,      \* global bot_instance: number of the latest PollBot (0 = None)
  g_pc,              \* request thread: position in start_bot
  t_pc,              \* bot threads: position of each _run_bot
  closed,            \* bots whose __exit__ was called
  late,              \* history: bots that probed the feed after their __exit__
  \* ---- OutputValidator (output_validator.py) ----
  v_pc,              \* position of the caller of validate_free_text_response
  drawn,             \* history: the words the answer text was put together from
  response,          \* the response dictionary handed to the validator
  v_result           \* what validate_free_text_response returned

brokerVars == <<admin_chat_id, responses, pending_responses, responses_lock,
                notified, edit_state, l_pc, l_id, l_action, l_events, l_commit,
                w_pc, w_id, w_left, w_seen, w_ret, w_path, requests, w_before, waited,
                removals, reaped>>

botCfg == <<claude_client, telegram_notifier, min_option, max_option>>

answerHist == <<gen_out, candidate, approval, result, notice>>

botVars == <<b_pc, botCfg, token, last_error, answered_polls, poll_id, probes, marker,
             raised, reported, returned, posts, logged,
             answerHist, status_sink>>

guiVars == <<bot_status, bot_instance, g_pc, t_pc, closed, late>>

valVars == <<v_pc, drawn, response, v_result>>

vars == <<botVars, brokerVars, guiVars, valVars>>

(***************************************************************************)
(* PollBot                                                                 *)
(***************************************************************************)

\* what one firehose probe can deliver (pollbot.py 241-262)
ProbeResults ==
  {[kind |-> "timeout"], [kind |-> "no_message"], [kind |-> "no_uid"],
   [kind |-> "conn_error"], [kind |-> "bad_body"], [kind |-> "bad_message"],
   [kind |-> "error", type |-> "ExpiredSubscription"],
   [kind |-> "error", type |-> "Other"]}
  \cup {[kind |-> "poll", uid |-> p] : p \in Polls}

\* get_new_poll_id, 241-262: the exception a probe result escapes with; only
\* ReadTimeout and KeyError are caught (line 261).  A refused or timed out
\* connection raises ConnectionError at 242, a body that is not JSON raises
\* JSONDecodeError at 243, a 'message' that is not JSON raises it at 258
ProbeRaises(r) ==
  CASE r.kind = "conn_error" -> "ConnectionError"
    [] r.kind = "bad_body" -> "JSONDecodeError"
    [] r.kind = "bad_message" -> "JSONDecodeError"
    [] OTHER -> "None"

\* PollBot.__init__ (pollbot.py 78-113)
BotInit ==
  /\ b_pc = "start"
  /\ claude_client \in BOOLEAN
  /\ telegram_notifier \in BOOLEAN
  /\ min_option \in 0..1
  /\ max_option \in {1, NumOptions + 1}
  /\ token = 0
  /\ last_error = "None"
  /\ answered_polls = {}
  /\ poll_id = 0
  /\ probes = 0
  /\ marker = FALSE
  /\ raised = "None"
  /\ reported = [p \in Polls |-> 0]
  /\ returned = [p \in Polls |-> 0]
  /\ posts = [p \in Polls |-> <<>>]
  /\ logged = [p \in Polls |-> 0]
  /\ gen_out = [p \in Polls |-> <<>>]
  /\ candidate = [p \in Polls |-> 0]
  /\ approval = [p \in Polls |-> NoApproval]
  /\ result = [p \in Polls |-> "none"]
  /\ notice = [p \in Polls |-> "none"]
  /\ status_sink = <<"none", "info">>

\* run, lines 389-393: the handler for LoginError and ValueError reports the
\* error and returns
LoginFailedMut ==
  /\ status_sink' = <<"error", "danger">>
  /\ b_pc' = "loop"
  /\ UNCHANGED token

LoginFailed ==
  /\ status_sink' = <<"error", "danger">>
  /\ b_pc' = "done"
  /\ UNCHANGED token

\* run, lines 383-393: login and the first firehose token
RunLogin ==
  /\ UNCHANGED <<brokerVars, guiVars, valVars>>
  /\ b_pc = "start"
  /\ \E outcome \in {"ok", "LoginError", "ValueError"} :
       IF outcome = "ok"
       THEN /\ token' = token + 1
            /\ status_sink' = <<"connected", "success">>
            /\ b_pc' = "loop"
       ELSE LoginFailed
  /\ UNCHANGED <<botCfg, last_error, answered_polls, poll_id, probes, marker,
                 raised, reported, returned, posts, logged,
                 answerHist>>

\* run, line 396: the only place where alive() is read is the loop condition
DeadlineReadMut == b_pc \in {"loop", "open_wait"}

DeadlineRead == b_pc = "loop"

\* run, line 396: the lifetime deadline has passed when the loop condition is read
RunDeadline ==
  /\ UNCHANGED <<brokerVars, guiVars, valVars>>
  /\ DeadlineRead
  /\ b_pc' = "done"
  /\ UNCHANGED <<botCfg, token, last_error, answered_polls, poll_id, probes, marker,
                 raised, reported, returned, posts, logged,
                 answerHist, status_sink>>

\* get_new_poll_id: the poll id it returns for probe result r (0 = None)
NewPollIdMut(r, answered) ==
  IF r.kind = "poll" THEN r.uid ELSE 0

NewPollId(r, answered) ==
  IF r.kind = "poll" /\ r.uid \notin answered THEN r.uid ELSE 0

\* get_new_poll_id: self.answered_polls after probe result r
AnsweredAfterMut(r, answered) ==
  answered

AnsweredOnSubmit(r, answered) ==
  {p \in Polls : result[p] = "json"}

AnsweredAfter(r, answered) ==
  IF r.kind = "poll" THEN answered \cup {r.uid} ELSE answered

\* get_new_poll_id: self.last_error after probe result r
LastErrorAfter(r, err) ==
  IF r.kind = "error" THEN r.type ELSE err

\* run, lines 406-407: the probe returned no poll id and left the
\* subscription-expired marker in last_error
RefreshesMut(pid, err) == FALSE

Refreshes(pid, err) == pid = 0 /\ err = "ExpiredSubscription"

\* run, line 412: self.last_error = None once the new token is there
AfterRefreshMut(err) == err

AfterRefresh(err) == "None"

\* get_firehose_token called from the loop (line 409), where nothing catches
\* what it raises: ValueError for an unknown host (line 223), and the
\* exceptions of session.get and r.json()
TokenOutcomes == {"ok", "ValueError", "ConnectionError"}

\* run, lines 424-425: a new poll is announced and the open_wait sleep begins
DetectedMut ==
  /\ status_sink' = <<"new_poll", "success">>
  /\ b_pc' = "loop"

Detected ==
  /\ status_sink' = <<"new_poll", "success">>
  /\ b_pc' = "open_wait"

\* run, lines 396-425: one loop iteration up to the sleep that ends it
\* (closed_wait when no new poll, open_wait when there is one); an exception
\* that get_new_poll_id does not catch leaves run, which has no handler
\* around its loop
RunProbe ==
  /\ UNCHANGED <<brokerVars, guiVars, valVars>>
  /\ b_pc = "loop"
  /\ probes < MaxProbes
  /\ \E r \in ProbeResults :
       LET pid == NewPollId(r, answered_polls)
           err == LastErrorAfter(r, last_error)
       IN  /\ probes' = probes + 1
           /\ marker' = (r.kind = "error" /\ r.type = "ExpiredSubscription")
           /\ reported' = IF r.kind = "poll"
                          THEN [reported EXCEPT ![r.uid] = @ + 1]
                          ELSE reported
           /\ IF ProbeRaises(r) # "None"
              THEN /\ raised' = ProbeRaises(r)
                   /\ b_pc' = "crashed"
                   /\ UNCHANGED <<answered_polls, poll_id, returned, token,
                                  last_error, status_sink>>
              ELSE /\ answered_polls' = AnsweredAfter(r, answered_polls)
                   /\ poll_id' = pid
                   /\ returned' = IF pid # 0
                                  THEN [returned EXCEPT ![pid] = @ + 1]
                                  ELSE returned
                   /\ IF pid = 0
                      THEN IF Refreshes(pid, err)
                           THEN \E fetch \in TokenOutcomes :
                                  /\ status_sink' = <<"expired", "warning">>
                                  /\ IF fetch = "ok"
                                     THEN /\ token' = token + 1
                                          /\ last_error' = AfterRefresh(err)
                                          /\ b_pc' = "loop"
                                          /\ UNCHANGED raised
                                     ELSE /\ raised' = fetch
                                          /\ last_error' = err
                                          /\ b_pc' = "crashed"
                                          /\ UNCHANGED token
                           ELSE /\ last_error' = err
                                /\ status_sink' = <<"no_poll", "info">>
                                /\ b_pc' = "loop"
                                /\ UNCHANGED <<token, raised>>
                      ELSE /\ last_error' = err
                           /\ Detected
                           /\ UNCHANGED <<token, raised>>
  /\ UNCHANGED <<botCfg, posts, logged, answerHist>>

\* answer_poll, line 283: options[self.min_option:self.max_option]
WindowMut == NumOptions

Window == Max(0, Min(max_option, NumOptions) - min_option)

\* answer_poll, line 330: options[i] of the window (Python indexing, 0 = IndexError);
\* the result is the 1-based position of the option in poll_data['options']
WindowPickMut(i) ==
  IF 0 <= i /\ i < NumOptions THEN i + 1 ELSE 0

WindowPick(i) ==
  IF 0 <= i /\ i < Window THEN min_option + i + 1
  ELSE IF i < 0 /\ -i <= Window THEN min_option + Window + i + 1
  ELSE 0

\* what one call of the generator can do: deliver an output that passes the
\* validator, deliver one that fails it, or raise (the API call of
\* claude_client.py 37 / 120 has no handler)
GenOutcomes == {"valid", "invalid", "raises"}

\* validate_and_retry_response, 129-131: validation_error is empty
PassesMut(out) == TRUE

Passes(out) == out = "valid"

\* validate_and_retry_response, 127-139: the loop from `attempt` on, after
\* `calls` generator calls; gens[k] is what the k-th call does.  response is
\* the number of the attempt whose output is returned (0 = None)
RECURSIVE ValidateFrom(_, _, _)
ValidateFrom(gens, attempt, calls) ==
  IF attempt >= max_retries
  THEN [response |-> 0, calls |-> calls, raised |-> FALSE]
  ELSE IF gens[attempt + 1] = "raises"
  THEN [response |-> 0, calls |-> calls + 1, raised |-> TRUE]
  ELSE IF Passes(gens[attempt + 1])
  THEN [response |-> attempt + 1, calls |-> calls + 1, raised |-> FALSE]
  ELSE ValidateFrom(gens, attempt + 1, calls + 1)

\* validate_and_retry_response (output_validator.py 113-139)
ValidateAndRetryMut(gens) == ValidateFrom(gens, 1, 1)

ValidateAndRetry(gens) == ValidateFrom(gens, 0, 0)

\* the 'answer' of the candidate that attempt k delivered
CandidateAnswers == <<"a1", "a2", "a3">>

\* what send_for_approval does for get_user_confirmation: returns an id,
\* returns None (no chat id, failed send), or raises
SendOutcomes == {"id", "none", "raises"}

\* what wait_for_response returns, by the return statement it leaves through
WaitOutcomes ==
  {[path |-> "observed", ret |-> [status |-> st, modified_text |-> m]] :
     st \in {"approved", "rejected"}, m \in Texts \cup {"None"}}
  \cup {[path |-> "timeout",
         ret |-> [status |-> "rejected", modified_text |-> "None"]],
        [path |-> "gone", ret |-> NoneResult]}

\* the terminal of the fallback: a key, stdin not readable, or no key ever
TermOutcomes == {"y", "Y", "n", "unreadable", "never"}

\* get_user_confirmation (output_validator.py 188-229): the channel decides
\* when a notifier is configured, an id came back and wait_for_response
\* returned a result (195-207); otherwise the terminal does (212-229), where
\* sys.stdin.read(1) waits for a key without a timeout
\* get_user_confirmation, 195-203: how far the channel got: no notifier, what
\* send_for_approval did when it gave no id, or the return statement
\* wait_for_response left through
ChannelOutcome(tn, send, wo) ==
  IF ~tn THEN "unset" ELSE IF send # "id" THEN send ELSE wo.path

GetUserConfirmation(tn, send, wo, term) ==
  IF tn /\ send = "id" /\ wo.ret # NoneResult
  THEN [via |-> IF wo.path = "timeout" THEN "channel_timeout" ELSE "channel",
        channel |-> ChannelOutcome(tn, send, wo),
        approved |-> wo.ret.status = "approved",
        modified_text |-> wo.ret.modified_text,
        blocked |-> FALSE]
  ELSE [via |-> "local",
        channel |-> ChannelOutcome(tn, send, wo),
        approved |-> term \in {"y", "Y"},
        modified_text |-> "None",
        blocked |-> term = "never"]

\* answer_poll, 289 and 306-311 against 325-335: only a free text candidate
\* is validated, retried and offered for confirmation
UsesApprovalMut(kind) == TRUE

UsesApproval(kind) == kind = "free_text_poll"

\* answer_poll, 317: modified_text if modified_text is not None else response['answer']
FinalAnswerMut(modified_text, answer) == answer

FinalAnswer(modified_text, answer) ==
  IF modified_text # "None" THEN modified_text ELSE answer

\* answer_poll leaves p with nothing submitted: it returns {} (301, 315, 351)
Dropped(p, msg) ==
  /\ result' = [result EXCEPT ![p] = "empty"]
  /\ notice' = [notice EXCEPT ![p] = msg]
  /\ status_sink' = <<"no_answer", "warning">>
  /\ b_pc' = "loop"
  /\ UNCHANGED <<posts, logged, raised>>

\* answer_poll is left by an exception that line 345 does not catch; run has
\* no handler around its loop (396-431)
Raised(p, exc) ==
  /\ raised' = exc
  /\ b_pc' = "crashed"
  /\ UNCHANGED <<posts, logged, result, notice, status_sink>>

\* answer_poll, 352-369: the POST, and log_response where the path has one
\* (324, 341)
Submitted(p, value, logs, msg) ==
  /\ posts' = [posts EXCEPT ![p] = Append(@, value)]
  /\ logged' = [logged EXCEPT ![p] = @ + logs]
  /\ result' = [result EXCEPT ![p] = "json"]
  /\ notice' = [notice EXCEPT ![p] = msg]
  /\ status_sink' = <<"answered", "success">>
  /\ b_pc' = "loop"
  /\ UNCHANGED raised

\* validate_and_retry_response over everything the generator can do: what
\* it returns, together with what the calls it made delivered
Attempts ==
  {[v |-> ValidateAndRetry(gens),
    out |-> SubSeq(gens, 1, ValidateAndRetry(gens).calls)] :
     gens \in [1..max_retries -> GenOutcomes]}

\* what the confirmation step of answer_poll can yield for a poll of a kind
Confirmations(kind) ==
  IF UsesApproval(kind)
  THEN {GetUserConfirmation(telegram_notifier, send, wo, term) :
          send \in SendOutcomes, wo \in WaitOutcomes, term \in TermOutcomes}
  ELSE {NoApproval}

\* answer_poll, 306-324 and 352-359 for free text, 330-341 and 360-369 for
\* multiple choice: a candidate goes through the confirmation step of its
\* kind and is submitted when approved
ConfirmMut(p, value, msg) ==
  \E c \in Confirmations(PollKind(p)) :
    /\ approval' = [approval EXCEPT ![p] = c]
    /\ Submitted(p, FinalAnswer(c.modified_text, value), 1, msg)

Confirm(p, value, msg) ==
  \E c \in Confirmations(PollKind(p)) :
    /\ approval' = [approval EXCEPT ![p] = c]
    /\ IF c.blocked
       THEN /\ b_pc' = "blocked"
            /\ UNCHANGED <<posts, logged, result, notice, status_sink, raised>>
       ELSE IF ~c.approved
       THEN Dropped(p, "cancelled")
       ELSE Submitted(p, FinalAnswer(c.modified_text, value), 1, msg)

\* answer_poll for a free text poll with a generator (289-324, 352-359)
AnswerFreeText(p) ==
  \E a \in Attempts :
    /\ gen_out' = [gen_out EXCEPT ![p] = a.out]
    /\ candidate' = [candidate EXCEPT ![p] = a.v.response]
    /\ IF a.v.raised
       THEN /\ Raised(p, "GenerationError")
            /\ UNCHANGED approval
       ELSE IF a.v.response = 0
       THEN /\ Dropped(p, "skipping")
            /\ UNCHANGED approval
       ELSE Confirm(p, CandidateAnswers[a.v.response], "using")

\* answer_poll for a multiple choice poll (279-283, 325-351, 360-369)
AnswerMultipleChoice(p) ==
  IF claude_client
  THEN \E g \in {"returns", "raises"}, i \in -(NumOptions + 1)..NumOptions :
         /\ gen_out' = [gen_out EXCEPT ![p] = <<g>>]
         /\ UNCHANGED candidate
         /\ IF g = "raises"
            THEN /\ Raised(p, "GenerationError")
                 /\ UNCHANGED approval
            ELSE IF WindowPick(i) = 0
            THEN /\ Dropped(p, "could_not_answer")
                 /\ UNCHANGED approval
            ELSE Confirm(p, WindowPick(i), "selected")
  ELSE /\ UNCHANGED <<gen_out, candidate, approval>>
       /\ IF Window > 0
          THEN \E i \in 0..(Window - 1) :
                 Submitted(p, WindowPick(i), 0, "none")
          ELSE Dropped(p, "could_not_answer")

\* answer_poll (pollbot.py 269-369) after the open_wait sleep, and run 426-431
AnswerPoll ==
  /\ UNCHANGED <<brokerVars, guiVars, valVars>>
  /\ b_pc = "open_wait"
  /\ LET p == poll_id IN
     IF PollKind(p) = "free_text_poll"
     THEN IF claude_client
          THEN AnswerFreeText(p)
          ELSE \* line 344 reads `options`, which no free text poll binds
               /\ Raised(p, "UnboundLocalError")
               /\ UNCHANGED <<gen_out, candidate, approval>>
     ELSE AnswerMultipleChoice(p)
  /\ UNCHANGED <<botCfg, token, last_error, answered_polls, poll_id, probes, marker,
                 reported, returned>>

(***************************************************************************)
(* TelegramNotifier                                                        *)
(*                                                                         *)
(* Three threads share pending_responses: the caller (send_for_approval,   *)
(* wait_for_response), the telebot listener (handle_response,              *)
(* handle_edited_response) and the cleanup thread.  A `with                *)
(* self.responses_lock` block that makes no blocking call is one step      *)
(* that needs the lock free; the listener's blocks call the Telegram API   *)
(* while holding the lock and span two steps.                              *)
(*                                                                         *)
(* Time is kept in minutes and relative: a record carries its age          *)
(* (datetime.now() - timestamp) and the waiter the time left until         *)
(* end_time; Tick lets one minute pass.                                    *)
(***************************************************************************)

\* number of send_for_approval calls the caller makes
MaxRequests == 2
\* number of updates (button presses, text messages) the chat delivers
MaxEvents == 2

\* timedelta(minutes=10), the age after which a pending response expires
TTL == 10
\* timeout=60.0 of wait_for_response, in minutes
Timeout == 1

tableVars == <<responses, pending_responses, responses_lock>>
chatVars == <<notified, edit_state>>
listenerVars == <<l_pc, l_id, l_action, l_events>>
callerVars == <<w_pc, w_id, w_left, w_seen, w_ret, w_path, requests, w_before>>
histVars == <<l_commit, waited, removals, reaped>>

\* TelegramNotifier.__init__ (36-51) and start (183-190)
BrokerInit ==
  /\ admin_chat_id \in BOOLEAN
  /\ responses = <<>>
  /\ pending_responses = {}
  /\ responses_lock = "free"
  /\ notified = {}
  /\ edit_state = 0
  /\ l_pc = "idle"
  /\ l_id = 0
  /\ l_action = "none"
  /\ l_events = 0
  /\ l_commit = <<>>
  /\ w_pc = "idle"
  /\ w_id = 0
  /\ w_left = 0
  /\ w_seen = "none"
  /\ w_ret = NoResult
  /\ w_path = "none"
  /\ requests = <<>>
  /\ w_before = {}
  /\ waited = {}
  /\ removals = <<>>
  /\ reaped = {}

\* one minute passes: the records age and the waiter's end_time comes closer
\* (only line 208 reads an age, of a pending record in the table, and tells
\* no two ages beyond TTL apart: the age of any other record is kept at 0)
Tick ==
  /\ responses' = [id \in DOMAIN responses |->
                     IF id \in pending_responses /\ responses[id].status = "pending"
                     THEN [responses[id] EXCEPT !.age = Min(@ + 1, TTL + 1)]
                     ELSE responses[id]]
  /\ w_left' = Max(w_left - 1, 0)
  /\ UNCHANGED <<botVars, guiVars, valVars, admin_chat_id, pending_responses, responses_lock,
                 chatVars, listenerVars, w_pc, w_id, w_seen, w_ret, w_path,
                 requests, w_before, histVars>>

\* threading.Lock: `with self.responses_lock` can be entered
LockFree == responses_lock = "free"

\* leaving a `with self.responses_lock` block
ReleaseLockMut == UNCHANGED responses_lock

ReleaseLock == responses_lock' = "free"

\* send_for_approval, 224: int(time.time() * 1000) is the wall clock in whole
\* milliseconds.  Two calls can fall into the same millisecond, and
\* time.time() is not monotonic (it returns a lower value after the system
\* clock was set back): a reading is one that was made before, or a later
\* one.  Readings are numbered in the order of their first occurrence
ClockReadings == 1..(Cardinality(DOMAIN responses) + 1)

\* send_for_approval, 224: response_id = str(int(time.time() * 1000)); the
\* decimal rendering tells any two readings apart, and no two equal ones
NewResponseId(ms) == ms

\* PendingResponse(...) as constructed at lines 225-230
PendingResponse ==
  [status |-> "pending", modified_text |-> "None", age |-> 0]

\* r with its status set to st
WithStatus(r, st) == [r EXCEPT !.status = st, !.age = 0]

\* a PendingResponse that is in the table no more and that the caller, now
\* in its next send_for_approval, holds no id of: no thread can reach it
Unreferenced == [status |-> "unreferenced", modified_text |-> "None", age |-> 0]

\* m with the entries of the records that left the table set to v
Live(m, v) == [k \in DOMAIN m |-> IF k \in pending_responses THEN m[k] ELSE v]

\* del self.pending_responses[id] (lines 267, 295, 304)
RemovedMut(id) == pending_responses

Removed(id) == pending_responses \ {id}

\* m with key id bound to v
Put(m, id, v) == [k \in DOMAIN m \cup {id} |-> IF k = id THEN v ELSE m[k]]

---------------------------------------------------------------------------
\* the caller thread

\* send_for_approval, 218-221: no admin chat id, nothing is created
SendNoChat ==
  /\ w_pc = "idle"
  /\ Len(requests) < MaxRequests
  /\ ~admin_chat_id
  /\ requests' = Append(requests, 0)
  /\ w_before' = pending_responses
  /\ w_ret' = NoneResult
  /\ w_path' = "no_chat"
  /\ UNCHANGED <<botVars, guiVars, valVars, admin_chat_id, tableVars, chatVars, listenerVars,
                 w_pc, w_id, w_left, w_seen, histVars>>

\* send_for_approval, 223-233: a pending record is put into the table under
\* the id read from the clock, in place of a record that has the same id;
\* the histories of an id are those of the record it names now.  The
\* records that left the table are dropped here with their histories: the
\* caller gives up the last id it held, and nothing else refers to them
SendInsert ==
  /\ w_pc = "idle"
  /\ Len(requests) < MaxRequests
  /\ admin_chat_id
  /\ LockFree
  /\ \E ms \in ClockReadings :
       LET id == NewResponseId(ms) IN
         /\ w_id' = id
         /\ responses' = Put(Live(responses, Unreferenced), id, PendingResponse)
         /\ pending_responses' = pending_responses \cup {id}
         /\ l_commit' = Put(Live(l_commit, {}), id, {})
         /\ removals' = Put(Live(removals, 0), id, 0)
         /\ waited' = (waited \cap pending_responses) \ {id}
         /\ reaped' = (reaped \cap pending_responses) \ {id}
         /\ requests' = Append(requests, id)
         /\ w_before' = pending_responses
  /\ w_pc' = "sending"
  /\ w_seen' = "none"
  /\ w_ret' = NoResult
  /\ w_path' = "none"
  /\ UNCHANGED <<botVars, guiVars, valVars, admin_chat_id, responses_lock, chatVars,
                 listenerVars, w_left>>

\* send_for_approval, 255-264: bot.send_message returns or raises
SendMessage ==
  /\ w_pc = "sending"
  /\ \E ok \in BOOLEAN :
       IF ok
       THEN /\ notified' = notified \cup {w_id}
            /\ w_pc' = "got_id"
       ELSE /\ w_pc' = "send_failed"
            /\ UNCHANGED notified
  /\ UNCHANGED <<botVars, guiVars, valVars, admin_chat_id, tableVars, edit_state, listenerVars,
                 w_id, w_left, w_seen, w_ret, w_path, requests, w_before, histVars>>

\* send_for_approval, 265-268: the failed send takes the record back
SendFailed ==
  /\ w_pc = "send_failed"
  /\ LockFree
  /\ IF w_id \in pending_responses
     THEN /\ pending_responses' = Removed(w_id)
          /\ responses' = [responses EXCEPT ![w_id].age = 0]
          /\ removals' = [removals EXCEPT ![w_id] = @ + 1]
     ELSE UNCHANGED <<responses, pending_responses, removals>>
  /\ w_pc' = "idle"
  /\ w_ret' = NoneResult
  /\ w_path' = "send_failed"
  /\ UNCHANGED <<botVars, guiVars, valVars, admin_chat_id, responses_lock, chatVars,
                 listenerVars, w_id, w_left, w_seen, requests, w_before, l_commit,
                 waited, reaped>>

\* the caller of send_for_approval keeps the id it got and never calls
\* wait_for_response with it
Abandon ==
  /\ w_pc = "got_id"
  /\ w_pc' = "idle"
  /\ UNCHANGED <<botVars, guiVars, valVars, admin_chat_id, tableVars, chatVars, listenerVars,
                 w_id, w_left, w_seen, w_ret, w_path, requests, w_before, histVars>>

\* get_user_confirmation, output_validator.py 200-202, and wait_for_response,
\* 281: the id is waited for at once; end_time = time.time() + timeout
WaitStart ==
  /\ w_pc = "got_id"
  /\ w_left' = Timeout
  /\ waited' = waited \cup {w_id}
  /\ w_pc' = "wait_loop"
  /\ UNCHANGED <<botVars, guiVars, valVars, admin_chat_id, tableVars, chatVars, listenerVars,
                 w_id, w_seen, w_ret, w_path, requests, w_before, l_commit, removals,
                 reaped>>

\* wait_for_response, 281, called again with the id of a request whose
\* outcome an earlier call returned
WaitAgain ==
  /\ w_pc = "idle"
  /\ w_path \in {"observed", "timeout"}
  /\ w_left' = Timeout
  /\ w_pc' = "wait_loop"
  /\ UNCHANGED <<botVars, guiVars, valVars, admin_chat_id, tableVars, chatVars, listenerVars,
                 w_id, w_seen, w_ret, w_path, requests, w_before, histVars>>

\* wait_for_response, 283: while time.time() < end_time
WaitLoopTest ==
  /\ w_pc = "wait_loop"
  /\ w_pc' = IF w_left > 0 THEN "wait_check" ELSE "wait_timeout"
  /\ UNCHANGED <<botVars, guiVars, valVars, admin_chat_id, tableVars, chatVars, listenerVars,
                 w_id, w_left, w_seen, w_ret, w_path, requests, w_before, histVars>>

\* wait_for_response, 291-294: the result built from a resolved record
WaitResultMut(id) ==
  [status |-> responses[id].status, modified_text |-> "None"]

WaitResult(id) ==
  [status |-> responses[id].status,
   modified_text |-> responses[id].modified_text]

\* wait_for_response, 284-298: one poll of the table under the lock
WaitCheck ==
  /\ w_pc = "wait_check"
  /\ LockFree
  /\ IF w_id \notin pending_responses
     THEN /\ w_ret' = NoneResult
          /\ w_path' = "gone"
          /\ w_pc' = "idle"
          /\ w_seen' = "none"
          /\ w_left' = 0
          /\ UNCHANGED <<pending_responses, removals>>
     ELSE IF responses[w_id].status # "pending"
     THEN /\ w_ret' = WaitResult(w_id)
          /\ w_path' = "observed"
          /\ pending_responses' = Removed(w_id)
          /\ removals' = [removals EXCEPT ![w_id] = @ + 1]
          /\ w_seen' = "none"
          /\ w_left' = 0
          /\ w_pc' = "idle"
     ELSE /\ w_seen' = "pending"
          /\ w_pc' = "wait_loop"
          /\ UNCHANGED <<pending_responses, removals, w_ret, w_path, w_left>>
  /\ UNCHANGED <<botVars, guiVars, valVars, admin_chat_id, responses, responses_lock, chatVars,
                 listenerVars, w_id, requests, w_before, l_commit, waited, reaped>>

\* wait_for_response, 300-306: the timeout path
WaitTimeout ==
  /\ w_pc = "wait_timeout"
  /\ LockFree
  /\ IF w_id \in pending_responses
     THEN /\ responses' = [responses EXCEPT ![w_id] = WithStatus(@, "rejected")]
          /\ pending_responses' = Removed(w_id)
          /\ removals' = [removals EXCEPT ![w_id] = @ + 1]
     ELSE UNCHANGED <<responses, pending_responses, removals>>
  /\ w_ret' = [status |-> "rejected", modified_text |-> "None"]
  /\ w_path' = "timeout"
  /\ w_pc' = "idle"
  /\ w_seen' = "none"
  /\ UNCHANGED <<botVars, guiVars, valVars, admin_chat_id, responses_lock, chatVars,
                 listenerVars, w_id, w_left, requests, w_before, l_commit, waited,
                 reaped>>

---------------------------------------------------------------------------
\* the listener thread

\* handle_response, 78: the status an approve or reject button sets
ActionStatusMut(action) == "approved"

ActionStatus(action) ==
  IF action = "approve" THEN "approved" ELSE "rejected"

\* handle_response, 64-78: a button of a delivered approval message is
\* pressed; the handler takes the lock, looks the record up and writes the status
HandleResponse ==
  /\ l_pc = "idle"
  /\ l_events < MaxEvents
  /\ LockFree
  /\ \E action \in {"approve", "reject", "edit"}, id \in notified :
       /\ l_action' = action
       /\ l_id' = id
       /\ IF id \in pending_responses /\ action \in {"approve", "reject"}
          THEN LET st == ActionStatus(action)
               IN  /\ responses' = [responses EXCEPT ![id] = WithStatus(@, st)]
                   /\ l_commit' = [l_commit EXCEPT ![id] = @ \cup {st}]
          ELSE UNCHANGED <<responses, l_commit>>
  /\ l_events' = l_events + 1
  /\ responses_lock' = "listener"
  /\ l_pc' = "hr_net"
  /\ UNCHANGED <<botVars, guiVars, valVars, admin_chat_id, pending_responses, chatVars,
                 callerVars, waited, removals, reaped>>

\* handle_response, 71-73, 81-92, 95-109: the Telegram calls made inside the
\* `with` block return or raise; the edit action then stores the response id
\* in the chat's state; leaving the block releases the lock
HandleResponseDone ==
  /\ l_pc = "hr_net"
  /\ \E ok \in BOOLEAN :
       edit_state' = IF ok /\ l_action = "edit" /\ l_id \in pending_responses
                     THEN l_id ELSE edit_state
  /\ ReleaseLock
  /\ l_pc' = "idle"
  /\ l_id' = 0
  /\ l_action' = "none"
  /\ UNCHANGED <<botVars, guiVars, valVars, admin_chat_id, responses, pending_responses,
                 notified, l_events, callerVars, histVars>>

\* handle_edited_response, 115-146: a text message arrives while the chat is
\* in awaiting_edit; the handler takes the lock and approves with the text
HandleEdited ==
  /\ l_pc = "idle"
  /\ l_events < MaxEvents
  /\ edit_state # 0
  /\ LockFree
  /\ \E text \in Texts :
       /\ l_action' = "text"
       /\ l_id' = edit_state
       /\ IF edit_state \in pending_responses
          THEN /\ responses' = [responses EXCEPT
                                  ![edit_state] = [WithStatus(@, "approved")
                                     EXCEPT !.modified_text = text]]
               /\ l_commit' = [l_commit EXCEPT ![edit_state] = @ \cup {"approved"}]
          ELSE UNCHANGED <<responses, l_commit>>
  /\ l_events' = l_events + 1
  /\ responses_lock' = "listener"
  /\ l_pc' = "he_net"
  /\ UNCHANGED <<botVars, guiVars, valVars, admin_chat_id, pending_responses, chatVars,
                 callerVars, waited, removals, reaped>>

\* handle_edited_response, 149-177: the Telegram calls return or raise; the
\* state is deleted unless send_message raised (lines 164, 172)
HandleEditedDone ==
  /\ l_pc = "he_net"
  /\ \E ok \in BOOLEAN :
       edit_state' = IF ok THEN 0 ELSE edit_state
  /\ ReleaseLock
  /\ l_pc' = "idle"
  /\ l_id' = 0
  /\ l_action' = "none"
  /\ UNCHANGED <<botVars, guiVars, valVars, admin_chat_id, responses, pending_responses,
                 notified, l_events, callerVars, histVars>>

---------------------------------------------------------------------------
\* the cleanup thread

\* _cleanup_expired_responses, 205-210: the ids it finds expired
ExpiredMut ==
  {id \in pending_responses : responses[id].status = "pending"}

Expired ==
  {id \in pending_responses :
     responses[id].age > TTL /\ responses[id].status = "pending"}

\* _cleanup_expired_responses, 203-214: one round; the sleep between two
\* rounds (line 202) is any number of Ticks
Cleanup ==
  /\ LockFree
  /\ responses' = [id \in DOMAIN responses |->
                     IF id \in Expired
                     THEN WithStatus(responses[id], "rejected")
                     ELSE responses[id]]
  /\ reaped' = reaped \cup Expired
  /\ UNCHANGED <<botVars, guiVars, valVars, admin_chat_id, pending_responses, responses_lock,
                 chatVars, listenerVars, callerVars, l_commit, waited,
                 removals>>

NextBroker ==
  \/ Tick
  \/ SendNoChat \/ SendInsert \/ SendMessage \/ SendFailed
  \/ WaitStart \/ WaitLoopTest \/ WaitCheck \/ WaitTimeout
  \/ HandleResponse \/ HandleResponseDone
  \/ HandleEdited \/ HandleEditedDone
  \/ Cleanup

\* the notifier used by a caller that may drop an id without waiting for it
NextOrphan == NextBroker \/ Abandon

\* the notifier used by a caller that may call wait_for_response once more
\* with an id it has already been given the outcome of
NextRewait == NextBroker \/ WaitAgain

Bots == 1..MaxBots

\* module globals of web_gui.py (19-21); no bot thread exists yet
GuiInit ==
  /\ bot_status = "stopped"
  /\ bot_instance = 0
  /\ g_pc = "idle"
  /\ t_pc = [b \in Bots |-> "none"]
  /\ closed = {}
  /\ late = {}

\* the validator has been constructed and not been called
ValidatorIdle ==
  /\ v_pc = "idle"
  /\ drawn = <<>>
  /\ response = [answer |-> <<>>]
  /\ v_result = [value |-> "unset", parts |-> <<>>]

\* PollBot is not running while the notifier is exercised on its own
BotIdle ==
  /\ BotInit
  /\ claude_client = TRUE
  /\ telegram_notifier = TRUE
  /\ min_option = 0
  /\ max_option = NumOptions + 1

InitBroker == BrokerInit /\ BotIdle /\ GuiInit /\ ValidatorIdle

SpecBroker == InitBroker /\ [][NextBroker]_vars

\* the Telegram calls of a handler return or raise, the clock advances and
\* the caller thread is scheduled
BrokerFairness ==
  /\ WF_vars(Tick)
  /\ WF_vars(WaitStart) /\ WF_vars(WaitLoopTest)
  /\ WF_vars(WaitCheck) /\ WF_vars(WaitTimeout)
  /\ WF_vars(HandleResponseDone) /\ WF_vars(HandleEditedDone)

SpecOrphan == InitBroker /\ [][NextOrphan]_vars

SpecBrokerFair == InitBroker /\ [][NextBroker]_vars /\ BrokerFairness

SpecRewait == InitBroker /\ [][NextRewait]_vars

(***************************************************************************)
(* Claims about TelegramNotifier                                           *)
(***************************************************************************)

\* wait_for_response has returned a result for the caller's current id
Returned == w_pc = "idle" /\ w_path \in {"observed", "timeout"}

\* C3: no lost update: when the listener committed a status on a record
\* before the waiter removed it, the outcome wait_for_response returns is a
\* status the listener committed; and the record is handed out once.
C3_NoLostUpdate ==
  \A id \in DOMAIN responses :
    /\ removals[id] <= 1
    /\ (Returned /\ w_id = id /\ l_commit[id] # {}) => w_ret.status \in l_commit[id]

\* C4: the status of a PendingResponse changes at most once: once it is not
\* 'pending', no step of any thread changes it (a step of send_for_approval
\* makes a new record and is not a change of one).
C4_StatusMonotonic ==
  [][requests' = requests
     => \A id \in DOMAIN responses :
          responses[id].status # "pending"
            => responses'[id].status = responses[id].status]_vars

\* C5: a listener action (button or edit text) for an id that is missing
\* from pending_responses, or whose record is no longer 'pending', leaves
\* the status and modified_text of every record unchanged.
C5_LateActionNoOp ==
  [][(/\ l_pc = "idle"
      /\ l_pc' \in {"hr_net", "he_net"}
      /\ (\/ l_id' \notin pending_responses
          \/ responses[l_id'].status # "pending"))
       => \A id \in DOMAIN responses :
            /\ responses'[id].status = responses[id].status
            /\ responses'[id].modified_text = responses[id].modified_text]_vars

\* C6: every check-then-act sequence on the table runs within one hold of
\* responses_lock, so no thread acts on a status it read before another
\* thread changed it: when the waiter force-rejects a record on its timeout
\* path, the record still has the status the waiter last read.
C6_NoStaleAct ==
  [][(/\ w_pc = "wait_timeout"
      /\ w_pc' = "idle"
      /\ w_seen # "none"
      /\ w_id \in pending_responses)
       => responses[w_id].status = w_seen]_vars

\* the caller thread is inside send_for_approval or wait_for_response for id
CallerOn(id) ==
  w_id = id /\ w_pc \in {"sending", "send_failed", "got_id", "wait_loop",
                          "wait_check", "wait_timeout"}

\* C7: every inserted record is removed exactly once, by the waiter or the
\* cleanup thread, whichever first observes it resolved or expired: no record
\* is deleted twice, and a resolved record is in the table only while a
\* caller is still on its way to remove it.
C7_RemovedOnce ==
  \A id \in DOMAIN responses :
    /\ removals[id] <= 1
    /\ (id \in pending_responses /\ responses[id].status # "pending")
         => CallerOn(id)

\* C8: a record whose caller left without ever calling wait_for_response
\* is, once the cleanup thread has found it older than the TTL, marked
\* 'rejected' and absent from pending_responses.
C8_ExpiredRemoved ==
  \A id \in reaped :
    (id \notin waited /\ ~CallerOn(id))
      => responses[id].status = "rejected" /\ id \notin pending_responses

\* C9: wait_for_response always returns: the waiter is not blocked for ever
\* on responses_lock while the listener makes its Telegram calls under it.
C9_WaitReturns ==
  (w_pc \in {"wait_loop", "wait_check", "wait_timeout"}) ~> (w_pc = "idle")

\* the timeout has elapsed and the waiter needs the lock the listener holds
C9_Witness ==
  /\ w_pc = "wait_timeout"
  /\ responses_lock = "listener"
  /\ w_left = 0

Allocated == SelectSeq(requests, LAMBDA id : id # 0)

\* C33: a round of the cleanup thread rejects the records of the table that
\* are 'pending' and older than the TTL and leaves their modified_text; every
\* other record (approved, rejected, or pending and not older than the TTL)
\* keeps its status and modified_text, and the table keeps its ids
C33_ReaperFrame ==
  [][Cleanup
     => /\ pending_responses' = pending_responses
        /\ \A id \in DOMAIN responses :
             IF /\ id \in pending_responses
                /\ responses[id].status = "pending"
                /\ responses[id].age > TTL
             THEN /\ responses'[id].status = "rejected"
                  /\ responses'[id].modified_text = responses[id].modified_text
             ELSE /\ responses'[id].status = responses[id].status
                  /\ responses'[id].modified_text = responses[id].modified_text]_vars

\* the cleanup thread rejected an expired record and left a younger pending
\* one of the same table alone
C33_Witness ==
  \E a, b \in pending_responses :
    /\ a \in reaped
    /\ responses[a].status = "rejected"
    /\ l_commit[a] = {}
    /\ b \notin reaped
    /\ responses[b].status = "pending"
    /\ responses[b].age > 0

\* C34: when send_for_approval has returned None, for want of an admin chat
\* id or because the send failed, the table holds the ids it held when the
\* call was made, and none for the request of a failed send
C34_NoneLeavesTable ==
  (w_pc = "idle" /\ w_path \in {"no_chat", "send_failed"})
    => (/\ w_ret = [status |-> "None", modified_text |-> "None"]
        /\ pending_responses = w_before
        /\ w_path = "send_failed" => w_id \notin pending_responses)

\* the send failed and the record put into the table was taken back
C34_Witness ==
  /\ w_pc = "idle"
  /\ w_path = "send_failed"
  /\ w_id \notin pending_responses
  /\ removals[w_id] = 1
  /\ pending_responses = w_before

\* C35: with the caller of PollBot's main loop, which waits for every id it
\* is given before it asks again, the table never holds more than one record
\* and holds none whenever the caller is outside get_user_confirmation's
\* channel calls
C35_AtMostOneRecord ==
  /\ Cardinality(pending_responses) <= 1
  /\ w_pc = "idle" => pending_responses = {}

\* two requests were made and answered, and the table is empty again
C35_Witness ==
  /\ w_pc = "idle"
  /\ Len(Allocated) = 2
  /\ w_path = "observed"
  /\ removals[w_id] = 1
  /\ pending_responses = {}

\* C37: a listener action changes the status and modified_text of no record
\* but the one whose id it carries, and of no record of a request other than
\* the one it was sent for: not of a record whose own message has not been
\* sent to the chat yet
C37_ListenerFrame ==
  [][(l_pc = "idle" /\ l_pc' \in {"hr_net", "he_net"})
     => \A id \in DOMAIN responses :
          (id # l_id' \/ (w_id = id /\ w_pc = "sending"))
            => (/\ responses'[id].status = responses[id].status
                /\ responses'[id].modified_text = responses[id].modified_text)]_vars

\* C25: every send_for_approval call that creates a record gives it an id no
\* earlier call of the process gave to a record, whether that record is
\* still in the table or was removed
C25_FreshIds ==
  \A i, j \in DOMAIN Allocated : i # j => Allocated[i] # Allocated[j]

\* C28: a poll of wait_for_response that finds its id absent from the table
\* returns None through the 'gone' return, leaves the table and its records
\* as they are, removes nothing, and get_user_confirmation does not take the
\* broker's word for the candidate: it goes on to the terminal
C28_GoneIsBenign ==
  [][(w_pc = "wait_check" /\ w_pc' = "idle" /\ w_id \notin pending_responses)
     => (/\ w_path' = "gone"
         /\ w_ret' = [status |-> "None", modified_text |-> "None"]
         /\ pending_responses' = pending_responses
         /\ responses' = responses
         /\ removals' = removals
         /\ \A term \in TermOutcomes :
              LET c == GetUserConfirmation(TRUE, "id",
                         [path |-> w_path', ret |-> w_ret'], term)
              IN  c.via = "local" /\ c.modified_text = "None")]_vars

\* the caller asked again for a request whose outcome it already had
C28_Witness ==
  /\ w_pc = "idle"
  /\ w_path = "gone"
  /\ w_ret = NoneResult
  /\ w_id \notin pending_responses
  /\ removals[w_id] = 1

\* C29: on a pending record in the table the approve button sets 'approved'
\* and the reject button 'rejected', both leaving modified_text as it is;
\* the edit button alone leaves the record as it is, and the text that
\* completes the edit sets 'approved' and stores that text in modified_text
C29_ActionsOnPending ==
  [][\A id \in DOMAIN responses :
       (/\ l_pc = "idle" /\ l_pc' \in {"hr_net", "he_net"} /\ l_id' = id
        /\ id \in pending_responses /\ responses[id].status = "pending")
       => CASE l_action' = "approve" ->
                 /\ responses'[id].status = "approved"
                 /\ responses'[id].modified_text = responses[id].modified_text
            [] l_action' = "reject" ->
                 /\ responses'[id].status = "rejected"
                 /\ responses'[id].modified_text = responses[id].modified_text
            [] l_action' = "text" ->
                 /\ responses'[id].status = "approved"
                 /\ responses'[id].modified_text \in Texts
            [] OTHER -> responses'[id] = responses[id]]_vars

\* a pending record was rejected by the button, its text untouched
C29_Witness ==
  /\ l_pc = "hr_net"
  /\ l_action = "reject"
  /\ l_id \in pending_responses
  /\ responses[l_id] = [status |-> "rejected", modified_text |-> "None", age |-> 0]
  /\ l_commit[l_id] = {"rejected"}


(***************************************************************************)
(* Claims about PollBot                                                    *)
(***************************************************************************)

\* C1: once get_new_poll_id has returned poll id p it never returns p again,
\* however often later probes still report p, and every id ever returned
\* stays in answered_polls (the set only grows).
C1_Dedup ==
  \A p \in Polls :
    /\ returned[p] <= 1
    /\ (returned[p] > 0 => p \in answered_polls)
    /\ (p \in answered_polls => returned[p] > 0)

\* a poll id was returned once and reported open by at least two more probes
C1_Witness ==
  \E p \in Polls : returned[p] = 1 /\ reported[p] >= 3 /\ p \in answered_polls

\* C2: within one run at most one answer POST is issued per poll id.
C2_OneSubmission ==
  \A p \in Polls : Len(posts[p]) <= 1

\* a poll was answered with one POST and the feed went on reporting it open
C2_Witness ==
  \E p \in Polls : Len(posts[p]) = 1 /\ reported[p] >= 2 /\ b_pc = "loop"

\* the free text polls and the multiple choice polls among the poll ids
FreeTextPolls == {p \in Polls : PollKind(p) = "free_text_poll"}
ChoicePolls == {p \in Polls : PollKind(p) = "multiple_choice_poll"}

\* C11: a free text answer is submitted only if get_user_confirmation
\* reported its candidate approved (by the channel or by the terminal); for
\* a candidate reported rejected, or whose wait timed out, nothing is
\* submitted and answer_poll returns {}.
C11_ApprovedOnly ==
  \A p \in FreeTextPolls :
    /\ posts[p] # <<>> => (approval[p].via # "none" /\ approval[p].approved)
    /\ (approval[p].via # "none" /\ ~approval[p].approved
          /\ ~approval[p].blocked)
         => (posts[p] = <<>> /\ result[p] = "empty")

\* the approval wait of a validated candidate timed out and the poll was dropped
C11_Witness ==
  \E p \in FreeTextPolls :
    /\ approval[p].via = "channel_timeout"
    /\ candidate[p] # 0
    /\ result[p] = "empty"
    /\ posts[p] = <<>>

\* C12: the text submitted for an approved free text candidate is the
\* approver's modified_text when there is one, and otherwise the answer of
\* the candidate validate_and_retry_response returned.
C12_SubmittedText ==
  \A p \in FreeTextPolls :
    posts[p] # <<>> =>
      posts[p][1] = IF approval[p].modified_text # "None"
                    THEN approval[p].modified_text
                    ELSE CandidateAnswers[candidate[p]]

\* the second attempt's candidate was approved with an edited text, which was posted
C12_Witness ==
  \E p \in FreeTextPolls :
    /\ candidate[p] = 2
    /\ approval[p].approved
    /\ approval[p].modified_text = "t1"
    /\ posts[p] = <<"t1">>

\* C13: validate_and_retry_response calls the generator once per attempt and
\* goes on only after an output that failed validation: it returns the
\* first output that passes, after exactly as many calls as that attempt's
\* number, and after max_retries failing outputs it returns None.
C13_RetryCount ==
  \A p \in FreeTextPolls :
    LET out == gen_out[p]
        n == Len(out)
    IN  n > 0 =>
          /\ n <= max_retries
          /\ \A k \in 1..(n - 1) : out[k] = "invalid"
          /\ out[n] = "valid" => candidate[p] = n
          /\ out[n] = "invalid" => (n = max_retries /\ candidate[p] = 0)

\* the first output failed validation, the second passed and was returned
C13_Witness ==
  \E p \in FreeTextPolls :
    gen_out[p] = <<"invalid", "valid">> /\ candidate[p] = 2

\* the generator outputs of an answer attempt all failed validation
AllInvalid(out) ==
  Len(out) > 0 /\ \A k \in 1..Len(out) : out[k] = "invalid"

\* C14: when every generator output for a free text poll fails validation,
\* answer_poll has made exactly max_retries generator calls, submits
\* nothing, the poll id is in answered_polls and run goes back to its loop.
C14_ValidationExhausted ==
  [][(b_pc = "open_wait" /\ poll_id \in FreeTextPolls
        /\ AllInvalid(gen_out'[poll_id]))
       => /\ Len(gen_out'[poll_id]) = max_retries
          /\ posts'[poll_id] = <<>>
          /\ result'[poll_id] = "empty"
          /\ poll_id \in answered_polls'
          /\ b_pc' = "loop"]_vars

\* three outputs failed validation, the poll was dropped and the loop is back
\* at its head
C14_Witness ==
  \E p \in FreeTextPolls :
    /\ gen_out[p] = <<"invalid", "invalid", "invalid">>
    /\ result[p] = "empty"
    /\ posts[p] = <<>>
    /\ p \in answered_polls
    /\ b_pc = "loop"

\* C15: every answer attempt that answer_poll finished, submitted or
\* dropped, appended exactly one entry to the response log.
C15_LoggedOnce ==
  \A p \in Polls : result[p] # "none" => logged[p] = 1

\* C16: an option id submitted for a multiple choice poll is the id of an
\* option inside options[min_option:max_option].
C16_InWindow ==
  \A p \in ChoicePolls :
    \A k \in 1..Len(posts[p]) :
      /\ posts[p][k] > min_option
      /\ posts[p][k] <= Min(max_option, NumOptions)

\* the generator's index was resolved in a window that does not start at
\* the first option
C16_Witness ==
  \E p \in ChoicePolls :
    /\ claude_client
    /\ min_option = 1
    /\ gen_out[p] = <<"returns">>
    /\ Len(posts[p]) = 1

\* options[min_option:max_option] is empty
EmptyWindow == Min(max_option, NumOptions) <= min_option

C18_ChoiceBypassesApproval ==
  \A p \in ChoicePolls :
    /\ approval[p].via = "none"
    /\ Len(gen_out[p]) <= 1
    /\ candidate[p] = 0
    /\ (posts[p] # <<>> /\ claude_client) => gen_out[p] = <<"returns">>

\* a generator's choice was submitted for a multiple choice poll
C18_Witness ==
  \E p \in ChoicePolls :
    /\ claude_client
    /\ telegram_notifier
    /\ gen_out[p] = <<"returns">>
    /\ Len(posts[p]) = 1
    /\ approval[p].via = "none"

\* C19: a failure of the generator while answering a poll does not leave
\* run: the poll is skipped and the loop goes on.
C19_RecoveredLocally ==
  ~(b_pc = "crashed" /\ raised = "GenerationError")

\* C20: get_new_poll_id does not raise on a transport failure or on a
\* malformed payload: it reports 'no poll'.
C20_ProbeNeverRaises ==
  ~(b_pc = "crashed" /\ raised \in {"ConnectionError", "JSONDecodeError"})

C22_LoginFailure ==
  (b_pc # "start" /\ token = 0)
    => (/\ b_pc = "done"
        /\ status_sink = <<"error", "danger">>
        /\ probes = 0
        /\ answered_polls = {}
        /\ \A p \in Polls : returned[p] = 0 /\ posts[p] = <<>>)

C22_Witness ==
  /\ b_pc = "done"
  /\ token = 0
  /\ status_sink = <<"error", "danger">>

\* C23: a probe is only ever made when every poll id returned so far has had
\* its answer attempt completed (answer_poll returned for it): polls are
\* processed one at a time
C23_OneAtATime ==
  [][probes' # probes
     => (/\ b_pc = "loop"
         /\ \A p \in Polls :
              returned[p] > 0 => result[p] \in {"empty", "json"})]_vars

C23_Witness ==
  /\ probes >= 2
  /\ \A p \in Polls : returned[p] = 1 /\ result[p] \in {"empty", "json"}

\* C24: run ends on the deadline only at the loop head; with a poll detected
\* and its attempt not yet made the next step is that attempt, which runs
\* to its end; once run has returned there are no more probes or submissions
C24_DeadlineAtLoopHead ==
  [][/\ b_pc = "open_wait"
        => (/\ b_pc' \in {"loop", "blocked", "crashed"}
            /\ probes' = probes
            /\ \/ b_pc' # "loop"
               \/ result'[poll_id] \in {"empty", "json"})
     /\ b_pc = "done"
        => (b_pc' = "done" /\ probes' = probes /\ posts' = posts)
     /\ (b_pc' = "done" /\ b_pc # "done") => b_pc \in {"start", "loop"}]_vars

C24_Witness ==
  /\ b_pc = "done"
  /\ token > 0
  /\ \E p \in Polls : returned[p] = 1 /\ result[p] = "json"

\* C26: the terminal fallback of get_user_confirmation always returns: no
\* confirmation that went to the terminal is left waiting for a key
C26_LocalBounded ==
  \A p \in Polls : approval[p].via = "local" => ~approval[p].blocked

C30_SeenAtDetection ==
  [][\A p \in Polls :
       /\ returned'[p] > returned[p]
            => (/\ p \in answered_polls'
                /\ b_pc' = "open_wait"
                /\ result[p] = "none"
                /\ posts[p] = <<>>)
       /\ result[p] = "empty"
            => (/\ returned'[p] = returned[p]
                /\ result'[p] = "empty"
                /\ posts'[p] = <<>>
                /\ p \in answered_polls')]_vars

C30_Witness ==
  \E p \in Polls :
    /\ result[p] = "empty"
    /\ returned[p] = 1
    /\ reported[p] >= 2
    /\ posts[p] = <<>>
    /\ p \in answered_polls

\* C36: a free text poll detected by a bot without a generator is dropped:
\* answer_poll returns the empty result for it, nothing is submitted and run
\* is not left by the exception of a name that was never bound
C36_NoGeneratorDropped ==
  \A p \in FreeTextPolls :
    (/\ ~claude_client
     /\ returned[p] > 0
     /\ ~(b_pc = "open_wait" /\ poll_id = p))
      => (/\ result[p] = "empty"
          /\ posts[p] = <<>>
          /\ raised # "UnboundLocalError")

\* C38: inside the loop a token is fetched only by an iteration whose probe
\* delivered the ExpiredSubscription marker, and no iteration goes back to
\* the loop head with that marker still in last_error
C38_RefreshOnlyOnMarker ==
  [][probes' = probes + 1
     => (/\ (token' # token \/ raised' = "ValueError") => marker'
         /\ b_pc' = "loop" => last_error' # "ExpiredSubscription")]_vars

\* another error marker stayed in last_error over two later probes that found
\* no poll, and no token was fetched
C38_Witness ==
  /\ b_pc = "loop"
  /\ last_error = "Other"
  /\ probes = 3
  /\ token = 1
  /\ ~marker
  /\ status_sink = <<"no_poll", "info">>
  /\ answered_polls = {}

NextBot == RunLogin \/ RunDeadline \/ RunProbe \/ AnswerPoll

\* no approval request is made while the main loop is exercised on its own
BrokerIdle == BrokerInit /\ admin_chat_id = TRUE

InitBot == BotInit /\ BrokerIdle /\ GuiInit /\ ValidatorIdle

SpecBot == InitBot /\ [][NextBot]_vars

(***************************************************************************)
(* WebGUI                                                                  *)
(***************************************************************************)

\* PollBot.__exit__ (pollbot.py 130-131) closes the HTTP session of bot b and
\* does nothing else: no flag that run reads is set, and the thread of b is
\* left where it is
Exit(b) ==
  /\ closed' = closed \cup {b}
  /\ UNCHANGED t_pc

\* start_bot (web_gui.py 111-141), up to bot_thread.start(): refused while
\* bot_status reads "running"; the constructor may raise, which the handler
\* catches and flashes (148-150)
StartBot ==
  /\ g_pc = "idle"
  /\ bot_status # "running"
  /\ bot_instance < MaxBots
  /\ \E built \in BOOLEAN :
       IF built
       THEN /\ bot_instance' = bot_instance + 1
            /\ t_pc' = [t_pc EXCEPT ![bot_instance + 1] = "run"]
            /\ g_pc' = "started"
       ELSE UNCHANGED <<bot_instance, t_pc, g_pc>>
  /\ UNCHANGED <<bot_status, closed, late>>
  /\ UNCHANGED <<botVars, brokerVars, valVars>>

\* start_bot (web_gui.py 143-147): the status is written after the thread
\* has been started
StartDone ==
  /\ g_pc = "started"
  /\ bot_status' = "running"
  /\ g_pc' = "idle"
  /\ UNCHANGED <<bot_instance, t_pc, closed, late>>
  /\ UNCHANGED <<botVars, brokerVars, valVars>>

\* stop_bot (web_gui.py 155-172)
StopBot ==
  /\ g_pc = "idle"
  /\ bot_status = "running"
  /\ bot_instance # 0
  /\ Exit(bot_instance)
  /\ bot_status' = "stopped"
  /\ UNCHANGED <<bot_instance, g_pc, late>>
  /\ UNCHANGED <<botVars, brokerVars, valVars>>

\* one iteration of PollBot.run in the thread of bot b (pollbot.py 404-438):
\* the loop tests alive() only, and a closed requests session opens new
\* connections, so the probe is issued after __exit__ as before it
BotProbe(b) ==
  /\ t_pc[b] = "run"
  /\ late' = IF b \in closed THEN late \cup {b} ELSE late
  /\ UNCHANGED <<bot_status, bot_instance, g_pc, t_pc, closed>>
  /\ UNCHANGED <<botVars, brokerVars, valVars>>

\* _run_bot (web_gui.py 182-186): bot.run() returns (deadline, failed login)
\* or raises
BotLeaves(b) ==
  /\ t_pc[b] = "run"
  /\ t_pc' = [t_pc EXCEPT ![b] = "finally"]
  /\ UNCHANGED <<bot_status, bot_instance, g_pc, closed, late>>
  /\ UNCHANGED <<botVars, brokerVars, valVars>>

\* _run_bot (web_gui.py 187-189): the finally block
BotFinally(b) ==
  /\ t_pc[b] = "finally"
  /\ bot_status' = "stopped"
  /\ t_pc' = [t_pc EXCEPT ![b] = "ended"]
  /\ UNCHANGED <<bot_instance, g_pc, closed, late>>
  /\ UNCHANGED <<botVars, brokerVars, valVars>>

\* the bot threads that are executing PollBot.run
Running == {b \in Bots : t_pc[b] = "run"}

\* C39: at most one PollBot.run loop is active at a time, and a bot whose
\* /stop was accepted issues no further probe
C39_OneLoopAtATime ==
  /\ Cardinality(Running) <= 1
  /\ late = {}

\* C40: between requests, and even before any /stop has been accepted,
\* bot_status reads "running" exactly while a bot thread is executing
\* PollBot.run (a thread that has left run and not yet reached its finally
\* block counts as running)
C40_StatusTracksLoop ==
  (g_pc = "idle" /\ closed = {})
    => (/\ bot_status = "stopped" => Running = {}
        /\ bot_status = "running"
             => \E b \in Bots : t_pc[b] \in {"run", "finally"})

NextGui ==
  \/ StartBot
  \/ StartDone
  \/ StopBot
  \/ \E b \in Bots : BotProbe(b)
  \/ \E b \in Bots : BotLeaves(b)
  \/ \E b \in Bots : BotFinally(b)

InitGui == GuiInit /\ BotIdle /\ BrokerIdle /\ ValidatorIdle

SpecGui == InitGui /\ [][NextGui]_vars

(***************************************************************************)
(* OutputValidator                                                         *)
(***************************************************************************)

\* a text is the sequence of its characters
UpperCase == <<"A", "B", "C", "D", "E", "F", "G", "H", "I", "J", "K", "L", "M", "N", "O", "P",
               "Q", "R", "S", "T", "U", "V", "W", "X", "Y", "Z">>

LowerCase == <<"a", "b", "c", "d", "e", "f", "g", "h", "i", "j", "k", "l", "m", "n", "o", "p",
               "q", "r", "s", "t", "u", "v", "w", "x", "y", "z">>

\* the characters \w of a regular expression matches
WordChars ==
  {UpperCase[i] : i \in 1..26} \cup {LowerCase[i] : i \in 1..26}
    \cup {"0", "1", "2", "3", "4", "5", "6", "7", "8", "9", "_"}

\* the lower case letter of each upper case letter
Folded ==
  [c \in {UpperCase[i] : i \in 1..26}
     |-> LowerCase[CHOOSE i \in 1..26 : UpperCase[i] = c]]

\* letter case kept
LowerMut(c) == c

\* re.IGNORECASE (output_validator.py 44-47): a character of the text is
\* compared in its lower case form with the lower case pattern
Lower(c) == IF c \in DOMAIN Folded THEN Folded[c] ELSE c

\* the pattern pat occurs in text at position p, letter case ignored
MatchAt(pat, text, p) ==
  \A k \in 1..Len(pat) : Lower(text[p + k - 1]) = pat[k]

\* \b between the characters p and p + 1 of text: exactly one of them is a
\* word character (the ends of the text count as non-word)
Boundary(text, p) ==
  (p \in 1..Len(text) /\ text[p] \in WordChars)
    # (p + 1 \in 1..Len(text) /\ text[p + 1] \in WordChars)

\* re.compile(r'\b' + pat + r'\b', re.IGNORECASE).search(text)
SearchWord(pat, text) ==
  \E p \in 1..(Len(text) - Len(pat) + 1) :
    /\ MatchAt(pat, text, p)
    /\ Boundary(text, p - 1)
    /\ Boundary(text, p + Len(pat) - 1)

\* re.compile(pat, re.IGNORECASE).search(text)
Search(pat, text) ==
  \E p \in 1..(Len(text) - Len(pat) + 1) : MatchAt(pat, text, p)

\* sub in text, for a literal sub
Contains(sub, text) ==
  \E p \in 1..(Len(text) - Len(sub) + 1) :
    \A k \in 1..Len(sub) : text[p + k - 1] = sub[k]

\* text.count(c), for a character c
Count(text, c) == Cardinality({p \in 1..Len(text) : text[p] = c})

\* AI_DISCLOSURE_PATTERNS (output_validator.py 15-22): each entry is the set
\* of alternatives that stand between its two \b
AI_DISCLOSURE_PATTERNS ==
  <<{<<"a", "i">>,
     <<"a", "r", "t", "i", "f", "i", "c", "i", "a", "l", " ", "i", "n", "t", "e", "l", "l", "i", "g", "e", "n", "c", "e">>,
     <<"l", "a", "n", "g", "u", "a", "g", "e", " ", "m", "o", "d", "e", "l">>,
     <<"l", "l", "m">>,
     <<"c", "l", "a", "u", "d", "e">>,
     <<"a", "s", "s", "i", "s", "t", "a", "n", "t">>},
    {<<"a", "s", " ", "a", "n", " ", "a", "i">>},
    {<<"i", " ", "a", "m", " ", "a", "n">>},
    {<<"i", " ", "c", "a", "n", "n", "o", "t">>},
    {<<"i", " ", "d", "o", "n", "'", "t", " ", "e", "x", "p", "e", "r", "i", "e", "n", "c", "e">>},
    {<<"i", " ", "a", "p", "o", "l", "o", "g", "i", "z", "e">>}>>

\* FORMAL_PATTERNS (output_validator.py 25-34)
FORMAL_PATTERNS ==
  <<<<"f", "u", "r", "t", "h", "e", "r", "m", "o", "r", "e">>,
    <<"m", "o", "r", "e", "o", "v", "e", "r">>,
    <<"t", "h", "u", "s">>,
    <<"h", "e", "n", "c", "e">>,
    <<"w", "h", "e", "r", "e", "i", "n">>,
    <<"h", "e", "r", "e", "b", "y">>,
    <<"n", "e", "v", "e", "r", "t", "h", "e", "l", "e", "s", "s">>,
    <<"s", "u", "b", "s", "e", "q", "u", "e", "n", "t", "l", "y">>>>

\* check_ai_disclosure (output_validator.py 49-51)
check_ai_disclosure(text) ==
  \E i \in DOMAIN AI_DISCLOSURE_PATTERNS :
    \E pat \in AI_DISCLOSURE_PATTERNS[i] : SearchWord(pat, text)

\* check_formality (output_validator.py 53-55)
check_formality(text) ==
  \E i \in DOMAIN FORMAL_PATTERNS : Search(FORMAL_PATTERNS[i], text)

\* check_length (output_validator.py 57-59)
check_length(text) == Len(text) <= MAX_RESPONSE_LENGTH

\* the character U+0060, which a string of this module cannot hold
Backquote == "U+0060"

\* check_response_structure (output_validator.py 61-71)
check_response_structure(text) ==
  IF Contains(<<Backquote, Backquote, Backquote>>, text)
       \/ Contains(<<"#">>, text) \/ Contains(<<"*">>, text)
  THEN FALSE
  ELSE IF Count(text, ".") > 3 \/ Count(text, ";") > 0
       THEN FALSE
       ELSE TRUE

\* dict.get(key, default)
Get(d, key, default) == IF key \in DOMAIN d THEN d[key] ELSE default

\* only the first failure is kept
CollectMut(failures, failed, message) ==
  IF failed /\ failures = <<>> THEN <<message>> ELSE failures

\* failures.append(message) under its if (output_validator.py 90-107)
Collect(failures, failed, message) ==
  IF failed THEN Append(failures, message) ELSE failures

\* validate_free_text_response (output_validator.py 73-110); the joined
\* string is kept as the sequence of its messages
validate_free_text_response(resp) ==
  LET answer == Get(resp, "answer", <<>>)
      confidence == Get(resp, "confidence", 0)
      f1 == Collect(<<>>, confidence < MIN_CONFIDENCE_THRESHOLD,
                    "Confidence too low")
      f2 == Collect(f1, check_ai_disclosure(answer),
                    "Contains AI disclosure patterns")
      f3 == Collect(f2, check_formality(answer),
                    "Contains overly formal language")
      f4 == Collect(f3, ~check_length(answer), "Response too long")
      f5 == Collect(f4, ~check_response_structure(answer),
                    "Response structure appears unnatural")
  IN IF f5 # <<>>
     THEN [value |-> "str", parts |-> f5]
     ELSE [value |-> "None", parts |-> <<>>]

\* a word of 74 characters: two of them and a space stay under the limit
Filler == [i \in 1..74 |-> "x"]

\* the words and marks the answers are put together from
Vocabulary ==
  {<<"A", "I", ",">>,
   <<"a", "i">>,
   <<"I">>,
   <<"c", "a", "n", "n", "o", "t">>,
   <<"s", "a", "i", "d">>,
   <<"t", "h", "u", "s">>,
   <<".", ".", ".">>,
   <<";">>,
   <<"#">>,
   <<"*">>,
   <<Backquote, Backquote, Backquote>>,
   Filler}

\* the example of the specification, as written and in other letter case
Examples ==
  {<<<<"A", "s">>, <<"a", "n">>, <<"A", "I", ",">>, <<"I">>,
     <<"c", "a", "n", "n", "o", "t">>, <<"a", "n", "s", "w", "e", "r">>, <<"t", "h", "a", "t">>>>,
   <<<<"A", "S">>, <<"A", "N">>, <<"a", "i", ",">>, <<"i">>,
     <<"C", "A", "N", "N", "O", "T">>, <<"A", "N", "S", "W", "E", "R">>, <<"T", "H", "A", "T">>>>}

\* the words joined by single spaces
RECURSIVE Join(_)
Join(words) ==
  IF words = <<>> THEN <<>>
  ELSE IF Len(words) = 1 THEN words[1]
  ELSE words[1] \o <<" ">> \o Join(Tail(words))

\* confidences the generator reports, in hundredths
Confidences == {69, 70}

\* the generator's dictionary: 'confidence' may be missing
Responses(words) ==
  {[answer |-> Join(words)]}
    \cup {[answer |-> Join(words), confidence |-> c] : c \in Confidences}

\* the validator is handed one response
ValidatorInit ==
  /\ v_pc = "ready"
  /\ drawn \in (UNION {[1..n -> Vocabulary] : n \in 0..MaxWords}) \cup Examples
  /\ response \in Responses(drawn)
  /\ v_result = [value |-> "unset", parts |-> <<>>]

\* the caller applies validate_free_text_response (output_validator.py 126)
Validate ==
  /\ v_pc = "ready"
  /\ v_result' = validate_free_text_response(response)
  /\ v_pc' = "done"
  /\ UNCHANGED <<drawn, response>>
  /\ UNCHANGED <<botVars, brokerVars, guiVars>>

\* the messages of the checks a response fails
Failing(resp) ==
  {m \in {"Confidence too low"} :
     Get(resp, "confidence", 0) < MIN_CONFIDENCE_THRESHOLD}
  \cup {m \in {"Contains AI disclosure patterns"} :
          check_ai_disclosure(Get(resp, "answer", <<>>))}
  \cup {m \in {"Contains overly formal language"} :
          check_formality(Get(resp, "answer", <<>>))}
  \cup {m \in {"Response too long"} :
          ~check_length(Get(resp, "answer", <<>>))}
  \cup {m \in {"Response structure appears unnatural"} :
          ~check_response_structure(Get(resp, "answer", <<>>))}

\* C31: the result is None exactly when no check fails, and otherwise it
\* names every failing check and no other
C31_AllChecksReported ==
  v_pc = "done"
    => (/\ (v_result.value = "None") <=> (Failing(response) = {})
        /\ {v_result.parts[i] : i \in DOMAIN v_result.parts}
             = Failing(response))

\* four checks failed on one response and all four are named
C31_Witness ==
  /\ v_pc = "done"
  /\ v_result.parts = <<"Confidence too low",
                        "Contains AI disclosure patterns",
                        "Contains overly formal language",
                        "Response structure appears unnatural">>

\* the words put together hold an AI self-reference or a refusal of the
\* pattern list, in some letter case
Discloses(words) ==
  \/ \E i \in DOMAIN words :
       words[i] \in {<<"A", "I", ",">>, <<"a", "i", ",">>, <<"a", "i">>}
  \/ \E i \in DOMAIN words :
       /\ i + 1 \in DOMAIN words
       /\ words[i] \in {<<"I">>, <<"i">>}
       /\ words[i + 1] \in {<<"c", "a", "n", "n", "o", "t">>,
                            <<"C", "A", "N", "N", "O", "T">>}

\* C32: a text that holds an AI self-reference or a refusal phrase is
\* reported with the disclosure violation, in whatever letter case it is
\* written
C32_DisclosureAnyCase ==
  (v_pc = "done" /\ Discloses(drawn))
    => \E i \in DOMAIN v_result.parts :
         v_result.parts[i] = "Contains AI disclosure patterns"

\* the upper case form of the specification's example was validated with a
\* sufficient confidence and the disclosure violation is all that is reported
C32_Witness ==
  /\ v_pc = "done"
  /\ drawn = <<<<"A", "S">>, <<"A", "N">>, <<"a", "i", ",">>, <<"i">>,
             <<"C", "A", "N", "N", "O", "T">>, <<"A", "N", "S", "W", "E", "R">>, <<"T", "H", "A", "T">>>>
  /\ v_result.parts = <<"Contains AI disclosure patterns">>

NextValidator == Validate

InitValidator == ValidatorInit /\ BotIdle /\ BrokerIdle /\ GuiInit

SpecValidator == InitValidator /\ [][NextValidator]_vars

====
